---- MODULE Spec2Model ----
(***************************************************************************)
(* CitySample editor scripts: percenttriangles.py, OverReducedFinder.py    *)
(* and TrianglesListMaker.py.                                              *)
(*                                                                         *)
(* The scripts read and write the LOD0 reduction ratio (percent_triangles) *)
(* of StaticMesh assets through a chain of three access paths              *)
(*   1: static_mesh.lods[0].reduction_settings                             *)
(*   2: static_mesh.source_models[0].reduction_settings                    *)
(*   3: StaticMeshEditorSubsystem.get/set_lod_reduction_settings           *)
(* each attempt wrapped in try/except.  The editor (host) is the           *)
(* environment: what a host call does (returns, finds nothing, raises) is  *)
(* an input of the action that makes the call.  The LOD0 ratio is one      *)
(* setting of the asset: a write that reaches the asset through any path   *)
(* changes it.                                                             *)
(*                                                                         *)
(* Ratios are fixed-point: the raw 0..1 float times 10000                  *)
(* (1.0 = 10000, 0.10 = 1000, 0.001 = 10).                                 *)
(***************************************************************************)
EXTENDS Integers, Sequences, FiniteSets

\* ------------------------------------------------------------------ bounds

\* Number of StaticMesh assets the asset registry returns.
NumMeshes == 2

Mesh == 1..NumMeshes

\* The three access paths, in the order the accessors try them.
Path == 1..3

\* Raw LOD0 ratios an asset may hold: 5%, 10% (percenttriangles' target), 100%.
Ratios == {500, 1000, 10000}

\* Raw LOD0 ratios of the assets OverReducedFinder scans: 5%, 9% (its reduction
\* threshold itself), 100% (the ratio it restores).
ORF_Ratios == {500, 900, 10000}

\* The ratios the assets of a script's run may hold.
RatiosOf(s) == IF s = "orf" THEN ORF_Ratios ELSE Ratios

\* LOD0 triangle counts an asset may report; 500 is OverReducedFinder's
\* triangle threshold itself.
TriCounts == {100, 300, 500}

\* Package paths, as sequences of characters: "xBg" and "bg" hold the token
\* "Bg" up to case, "Bxg" does not.
PackagePaths == {<<"x", "B", "g">>, <<"b", "g">>, <<"B", "x", "g">>}

\* ------------------------------------------------- configuration constants

\* percenttriangles.TARGET_PERCENT_RAW = TARGET_PERCENT_UI / 100.0 = 0.10
PT_TARGET_PERCENT_RAW == 1000

\* percenttriangles.ONLY_WHEN_EQUALS_RAW = ONLY_WHEN_EQUALS_UI / 100.0 = 1.0
PT_ONLY_WHEN_EQUALS_RAW == 10000

\* percenttriangles.EPS_RAW = 0.001
PT_EPS_RAW == 10

\* percenttriangles.TRIANGLE_CUTOFF = 0 (cutoff disabled)
PT_TRIANGLE_CUTOFF == 0

\* percenttriangles.SKIP_IF_ALREADY_BELOW_TARGET
PT_SKIP_IF_ALREADY_BELOW_TARGET == TRUE

\* percenttriangles.run(sample_count=3)
PT_SAMPLE_COUNT == 3

\* OverReducedFinder.TARGET_PERCENT_RAW = 1.0
ORF_TARGET_PERCENT_RAW == 10000

\* OverReducedFinder.REDUCTION_THRESHOLD_RAW = REDUCTION_THRESHOLD_UI / 100.0 = 0.09
ORF_REDUCTION_THRESHOLD_RAW == 900

\* OverReducedFinder.TRIANGLE_THRESHOLD
ORF_TRIANGLE_THRESHOLD == 500

\* Python's None as returned by get_percent_triangles_lod0 (no ratio is negative).
NoneVal == -1

\* get_lod0_triangle_count's "unknown".
TriUnknown == -1

Abs(x) == IF x < 0 THEN -x ELSE x

Min(a, b) == IF a < b THEN a ELSE b

\* ------------------------------------------------------ host call outcomes

\* One read attempt of a path: the getter raises (or float() of what it finds
\* raises), the container (lods / source_models / settings) is empty or falsy,
\* or the ratio is read.
ReadOut == {"raise", "absent", "ok"}

\* One write attempt of a path: a call raises before anything reached the
\* asset, the container is empty or falsy, a later setter of the attempt raises
\* after an earlier one already changed the asset ("partial"), or every setter
\* returns.
WriteOut == {"raise", "absent", "partial", "ok"}

\* A call of a method that may be missing in this engine version
\* (AttributeError), may fail otherwise, or returns.
CallOut == {"ok", "attr", "err"}

\* The nanite_settings property path: reading the property raises, it is
\* falsy, it works, or writing it back raises.
FallbackOut == {"raise", "absent", "ok", "setraise"}

\* A guarded optional API (hasattr(...) then call).
OptOut == {"ok", "missing", "raise"}

\* ------------------------------------------------------------ the accessors

\* A variant of the read chain in which an empty lods list ends the read with
\* None instead of falling through to the next path.
get_lod0_empty_lods_returns_none(vals, outs) ==
    IF outs[1] = "ok"
    THEN [res |-> vals[1], tried |-> <<1>>, raised |-> FALSE]
    ELSE IF outs[1] = "absent"
    THEN [res |-> NoneVal, tried |-> <<1>>, raised |-> FALSE]
    ELSE IF outs[2] = "ok"
    THEN [res |-> vals[2], tried |-> <<1, 2>>, raised |-> FALSE]
    ELSE IF outs[3] = "ok"
    THEN [res |-> vals[3], tried |-> <<1, 2, 3>>, raised |-> FALSE]
    ELSE [res |-> NoneVal, tried |-> <<1, 2, 3>>, raised |-> FALSE]

\* get_percent_triangles_lod0 (the same chain in the three scripts).
\* vals: the ratio each path returns when it returns one; outs: what each
\* attempt does.  tried: the paths attempted, in order.  The function has no
\* statement that can raise outside a try block, so raised is FALSE.
get_percent_triangles_lod0(vals, outs) ==
    IF outs[1] = "ok"
    THEN [res |-> vals[1], tried |-> <<1>>, raised |-> FALSE]
    ELSE IF outs[2] = "ok"
    THEN [res |-> vals[2], tried |-> <<1, 2>>, raised |-> FALSE]
    ELSE IF outs[3] = "ok"
    THEN [res |-> vals[3], tried |-> <<1, 2, 3>>, raised |-> FALSE]
    ELSE [res |-> NoneVal, tried |-> <<1, 2, 3>>, raised |-> FALSE]

\* What the three paths return for an asset whose LOD0 ratio is `ratio`.
Exposed(ratio) == [p \in Path |-> ratio]

\* The effect of one write attempt on the asset's ratio.
WriteAttempt(ratio, out, value_raw) ==
    IF out \in {"ok", "partial"} THEN value_raw ELSE ratio

\* The attempts, among the first k, that changed the asset.
Wrote(outs, k) == {p \in 1..k : outs[p] \in {"ok", "partial"}}

\* A variant of the write chain whose try blocks lack their "return True":
\* every path is attempted, and the result is whether any attempt completed.
SetChain_without_return(ratio, outs, value_raw) ==
    LET r1 == WriteAttempt(ratio, outs[1], value_raw)
        r2 == WriteAttempt(r1, outs[2], value_raw)
        r3 == WriteAttempt(r2, outs[3], value_raw)
    IN  [ok |-> (\E p \in Path : outs[p] = "ok"), ratio |-> r3,
         tried |-> <<1, 2, 3>>, wrote |-> Wrote(outs, 3)]

\* The three try blocks shared by both set_percent_triangles_lod0: the first
\* attempt that completes returns True; otherwise control falls off the chain.
SetChain(ratio, outs, value_raw) ==
    LET r1 == WriteAttempt(ratio, outs[1], value_raw)
        r2 == WriteAttempt(r1, outs[2], value_raw)
        r3 == WriteAttempt(r2, outs[3], value_raw)
    IN  IF outs[1] = "ok"
        THEN [ok |-> TRUE, ratio |-> r1, tried |-> <<1>>,
              wrote |-> Wrote(outs, 1)]
        ELSE IF outs[2] = "ok"
        THEN [ok |-> TRUE, ratio |-> r2, tried |-> <<1, 2>>,
              wrote |-> Wrote(outs, 2)]
        ELSE IF outs[3] = "ok"
        THEN [ok |-> TRUE, ratio |-> r3, tried |-> <<1, 2, 3>>,
              wrote |-> Wrote(outs, 3)]
        ELSE [ok |-> FALSE, ratio |-> r3, tried |-> <<1, 2, 3>>,
              wrote |-> Wrote(outs, 3)]

\* OverReducedFinder.set_percent_triangles_lod0: the chain, then return False.
ORF_set_percent_triangles_lod0(ratio, outs, value_raw) ==
    LET r == SetChain(ratio, outs, value_raw)
    IN  [ok |-> r.ok, ratio |-> r.ratio, tried |-> r.tried, wrote |-> r.wrote,
         raised |-> FALSE]

\* percenttriangles.set_percent_triangles_lod0: the chain, then the failure
\* report _log(f"... {static_mesh.get_name()} ..."), which is outside every
\* try block: when get_name() raises (nameOk = FALSE) the exception leaves the
\* function.
PT_set_percent_triangles_lod0(ratio, outs, value_raw, nameOk) ==
    LET r == SetChain(ratio, outs, value_raw)
    IN  [ok |-> r.ok, ratio |-> r.ratio, tried |-> r.tried, wrote |-> r.wrote,
         raised |-> (~r.ok /\ ~nameOk)]

\* percenttriangles.ensure_nanite_disabled.
\* enabled: the asset's Nanite flag; isOut / setOut: what is_nanite_enabled()
\* and set_nanite_enabled(False) do; fbOut: what the nanite_settings path does.
\* Only AttributeError is caught around the preferred API.
ensure_nanite_disabled(enabled, isOut, setOut, fbOut) ==
    LET Fallback(was0) ==
            IF fbOut \in {"raise", "absent"}
            THEN [raised |-> FALSE, enabled |-> enabled, was |-> was0,
                  after |-> FALSE, changed |-> FALSE, fallback |-> TRUE]
            ELSE IF ~enabled
            THEN [raised |-> FALSE, enabled |-> FALSE, was |-> FALSE,
                  after |-> FALSE, changed |-> FALSE, fallback |-> TRUE]
            ELSE IF fbOut = "ok"
            THEN [raised |-> FALSE, enabled |-> FALSE, was |-> TRUE,
                  after |-> FALSE, changed |-> TRUE, fallback |-> TRUE]
            ELSE [raised |-> FALSE, enabled |-> TRUE, was |-> TRUE,
                  after |-> FALSE, changed |-> FALSE, fallback |-> TRUE]
        Escapes(was0) ==
            [raised |-> TRUE, enabled |-> enabled, was |-> was0,
             after |-> enabled, changed |-> FALSE, fallback |-> FALSE]
    IN  IF isOut = "attr" THEN Fallback(FALSE)
        ELSE IF isOut = "err" THEN Escapes(FALSE)
        ELSE IF enabled /\ setOut = "attr" THEN Fallback(TRUE)
        ELSE IF enabled /\ setOut = "err" THEN Escapes(TRUE)
        ELSE [raised |-> FALSE, enabled |-> FALSE, was |-> enabled,
              after |-> FALSE, changed |-> enabled, fallback |-> FALSE]

\* TrianglesListMaker.collect_candidates' read of the Nanite flag: any
\* exception of is_nanite_enabled() leads to the nanite_settings path.
TLM_nanite_state(enabled, isOut, fbOut) ==
    IF isOut = "ok"
    THEN [raised |-> FALSE, state |-> enabled, fallback |-> FALSE]
    ELSE [raised |-> FALSE,
          state |-> (fbOut \in {"ok", "setraise"} /\ enabled),
          fallback |-> TRUE]

\* -------------------------------------------------------------------- state

VARIABLES
    script,       \* "acc": accessor calls on one asset; "pt": percenttriangles.run;
                  \* "orf": OverReducedFinder.run; "tlm": TrianglesListMaker.run
    dry_run,      \* run(dry_run=...)
    applyIfFull,  \* percenttriangles.APPLY_IF_PERCENT_EQ_FULL
    pc,           \* where run() is
    idx,          \* loop index of run() / collect_candidates()
    step,         \* where process_mesh is for the current asset
    val,          \* host: per asset, its LOD0 ratio (percent_triangles)
    nanite,       \* host: per asset, the Nanite flag
    percent_raw,  \* percenttriangles.process_mesh: the ratio it read
    reads,        \* percenttriangles.process_mesh: reads of the ratio it made
    edited,       \* percenttriangles: the ratio an outside edit gave the asset
                  \* after process_mesh read it (NoneVal: no such edit)
    log,          \* the mutating host calls the current process_mesh made
    result,       \* what the last process_mesh reported
    counts,       \* run: changed / skipped / errors (OverReducedFinder:
                  \* fixed in changed, failed in errors)
    cands,        \* OverReducedFinder: the list of MeshInfo records
    crash,        \* which call's exception left run() ("none": none did)
    call          \* "acc": the last accessor call, its inputs and its result;
                  \* "orf", "tlm": the last pass of collect_candidates

vars == <<script, dry_run, applyIfFull, pc, idx, step, val, nanite, percent_raw,
          reads, edited, log, result, counts, cands, crash, call>>

\* The asset the accessor calls of "acc" are made on.
AccMesh == 1

NoLog == [setCalled |-> FALSE, setOk |-> FALSE,
          buildCalled |-> FALSE, buildOk |-> FALSE,
          saveCalled |-> FALSE, saveOk |-> FALSE]

NoCall == [op |-> "none", vals |-> Exposed(NoneVal),
           outs |-> <<"ok", "ok", "ok">>, pre |-> FALSE,
           res |-> NoneVal, ok |-> FALSE, tried |-> <<>>, wrote |-> {},
           before |-> NoneVal, raised |-> FALSE, fallback |-> FALSE]

\* What every run starts from, whatever the script.
InitCommon ==
    /\ idx = 1
    /\ step = "none"
    /\ percent_raw = NoneVal
    /\ reads = 0
    /\ edited = NoneVal
    /\ log = NoLog
    /\ result = "none"
    /\ counts = [changed |-> 0, skipped |-> 0, errors |-> 0]
    /\ cands = <<>>
    /\ crash = "none"
    /\ call = NoCall

\* -------------------------------------------- accessor calls on one asset

InitAcc ==
    /\ script = "acc"
    /\ dry_run = FALSE
    /\ applyIfFull = TRUE
    /\ pc = "acc"
    /\ val \in [Mesh -> Ratios]
    /\ \A m \in Mesh \ {AccMesh} : val[m] = PT_ONLY_WHEN_EQUALS_RAW
    /\ nanite \in [Mesh -> BOOLEAN]
    /\ \A m \in Mesh \ {AccMesh} : ~nanite[m]
    /\ InitCommon

AccFrame == UNCHANGED <<script, dry_run, applyIfFull, pc, idx, step, percent_raw,
                        reads, edited, log, result, counts, cands, crash>>

\* get_percent_triangles_lod0(static_mesh), for every combination of what the
\* three paths do and of the ratios they return.
AccGet ==
    /\ pc = "acc"
    /\ \E vals \in [Path -> Ratios], outs \in [Path -> ReadOut] :
         LET r == get_percent_triangles_lod0(vals, outs)
         IN  call' = [op |-> "get", vals |-> vals, outs |-> outs,
                      pre |-> nanite[AccMesh], res |-> r.res,
                      ok |-> (r.res # NoneVal), tried |-> r.tried, wrote |-> {},
                      before |-> val[AccMesh], raised |-> r.raised,
                      fallback |-> FALSE]
    /\ UNCHANGED <<val, nanite>>
    /\ AccFrame

\* percenttriangles.set_percent_triangles_lod0(static_mesh, TARGET_PERCENT_RAW)
AccSetPT ==
    /\ pc = "acc"
    /\ \E outs \in [Path -> WriteOut], nameOk \in BOOLEAN :
         LET r == PT_set_percent_triangles_lod0(val[AccMesh], outs,
                                                PT_TARGET_PERCENT_RAW, nameOk)
         IN  /\ val' = [val EXCEPT ![AccMesh] = r.ratio]
             /\ call' = [op |-> "set", vals |-> Exposed(val[AccMesh]),
                         outs |-> outs, pre |-> nanite[AccMesh],
                         res |-> NoneVal, ok |-> (r.ok /\ ~r.raised),
                         tried |-> r.tried, wrote |-> r.wrote,
                         before |-> val[AccMesh], raised |-> r.raised,
                         fallback |-> FALSE]
    /\ UNCHANGED nanite
    /\ AccFrame

\* OverReducedFinder.set_percent_triangles_lod0(static_mesh, TARGET_PERCENT_RAW)
AccSetORF ==
    /\ pc = "acc"
    /\ \E outs \in [Path -> WriteOut] :
         LET r == ORF_set_percent_triangles_lod0(val[AccMesh], outs,
                                                 ORF_TARGET_PERCENT_RAW)
         IN  /\ val' = [val EXCEPT ![AccMesh] = r.ratio]
             /\ call' = [op |-> "set", vals |-> Exposed(val[AccMesh]),
                         outs |-> outs, pre |-> nanite[AccMesh],
                         res |-> NoneVal, ok |-> r.ok, tried |-> r.tried,
                         wrote |-> r.wrote, before |-> val[AccMesh],
                         raised |-> r.raised, fallback |-> FALSE]
    /\ UNCHANGED nanite
    /\ AccFrame

\* percenttriangles.ensure_nanite_disabled(static_mesh)
AccEnsureNanite ==
    /\ pc = "acc"
    /\ \E isOut \in CallOut, setOut \in CallOut, fbOut \in FallbackOut :
         LET r == ensure_nanite_disabled(nanite[AccMesh], isOut, setOut, fbOut)
         IN  /\ nanite' = [nanite EXCEPT ![AccMesh] = r.enabled]
             /\ call' = [op |-> "ensure_nanite", vals |-> Exposed(val[AccMesh]),
                         outs |-> <<isOut, setOut, fbOut>>,
                         pre |-> nanite[AccMesh], res |-> NoneVal,
                         ok |-> ~r.raised, tried |-> <<>>, wrote |-> {},
                         before |-> val[AccMesh], raised |-> r.raised,
                         fallback |-> r.fallback]
    /\ UNCHANGED val
    /\ AccFrame

\* The Nanite flag read of TrianglesListMaker.collect_candidates
AccNaniteState ==
    /\ pc = "acc"
    /\ \E isOut \in CallOut, fbOut \in FallbackOut :
         LET r == TLM_nanite_state(nanite[AccMesh], isOut, fbOut)
         IN  call' = [op |-> "nanite_state", vals |-> Exposed(val[AccMesh]),
                      outs |-> <<isOut, "ok", fbOut>>,
                      pre |-> nanite[AccMesh], res |-> NoneVal,
                      ok |-> r.state, tried |-> <<>>, wrote |-> {},
                      before |-> val[AccMesh], raised |-> r.raised,
                      fallback |-> r.fallback]
    /\ UNCHANGED <<val, nanite>>
    /\ AccFrame

NextAcc ==
    \/ AccGet
    \/ AccSetPT
    \/ AccSetORF
    \/ AccEnsureNanite
    \/ AccNaniteState

\* Accessor calls, in any order, on an asset in any state.
SpecAcc == InitAcc /\ [][NextAcc]_vars

\* ------------------------------------------------------- accessor claims

\* C1: get_percent_triangles_lod0 returns the value of the first access path
\* (in the order lods, source_models, editor subsystem) that neither raises nor
\* is absent, whatever the earlier paths did, and does not raise.
C1_FirstSuccessWins ==
    call.op = "get" =>
        \A p \in Path :
            (call.outs[p] = "ok" /\ \A q \in 1..(p - 1) : call.outs[q] # "ok")
                => (call.res = call.vals[p] /\ ~call.raised)

\* The spec's example: [raises, returns 0.10, returns another value] yields 0.10.
C1_Witness ==
    /\ call.op = "get"
    /\ call.outs = <<"raise", "ok", "ok">>
    /\ call.vals[2] = 1000
    /\ call.vals[3] = 10000
    /\ call.res = 1000

\* C2: short-circuit.  In a read and in a write, no access path is attempted
\* after one that succeeded: every attempted path has only failed paths before it.
C2_ShortCircuit ==
    call.op \in {"get", "set"} =>
        \A i \in 1..Len(call.tried) :
            \A q \in 1..(call.tried[i] - 1) : call.outs[q] # "ok"

\* A write where only the 2nd path is reached and succeeds: the 3rd is not called.
C2_Witness ==
    /\ call.op = "set"
    /\ call.outs[1] = "raise"
    /\ call.outs[2] = "ok"
    /\ call.outs[3] = "ok"
    /\ call.ok
    /\ call.tried = <<1, 2>>

\* C3 (as claimed): no accessor raises to its caller, and when every access
\* path raises the read returns None and the write returns False.
C3_AccessorNeverRaises ==
    call.op \in {"get", "set"} =>
        /\ ~call.raised
        /\ (\A p \in Path : call.outs[p] = "raise") =>
               /\ call.op = "get" => call.res = NoneVal
               /\ call.op = "set" => ~call.ok

\* C4 (as claimed): whatever error the preferred Nanite API raises, it does not
\* leave the accessor and the nanite_settings path is attempted.
C4_NaniteAttemptIsolated ==
    (/\ call.op \in {"ensure_nanite", "nanite_state"}
     /\ \/ call.outs[1] # "ok"
        \/ call.op = "ensure_nanite" /\ call.pre /\ call.outs[2] # "ok")
        => (~call.raised /\ call.fallback)

\* ---------------------------------------------------- the scripts' helpers

\* What a triangle-count call does: it raises, the API is missing or finds
\* nothing, or it returns a count.
TriOut == {[k |-> "raise", n |-> 0], [k |-> "missing", n |-> 0]}
              \cup {[k |-> "ok", n |-> c] : c \in TriCounts}

\* The fallback of get_lod0_triangle_count (render_data.lods[0]).
TriFallbackOut == {[k |-> "raise", n |-> 0], [k |-> "missing", n |-> 0],
                   [k |-> "ok", n |-> 100]}

\* OverReducedFinder.get_lod0_triangle_count
get_lod0_triangle_count(primary, fallback) ==
    IF primary.k = "ok" THEN primary.n
    ELSE IF fallback.k = "ok" THEN fallback.n
    ELSE TriUnknown

\* percenttriangles.process_mesh, the triangle count acquisition
PT_tri_count(primary) == IF primary.k = "ok" THEN primary.n ELSE TriUnknown

\* A variant of the checks of process_mesh without the dry-run return.
PT_decision_ignoring_dry_run(pct, tri_count, aif, dry) ==
    IF Abs(pct - PT_TARGET_PERCENT_RAW) <= PT_EPS_RAW THEN "Already"
    ELSE IF aif /\ Abs(pct - PT_ONLY_WHEN_EQUALS_RAW) > PT_EPS_RAW
    THEN "SkippedNotFull"
    ELSE "Apply"

\* percenttriangles.process_mesh, the checks between the Nanite call and the
\* change: what process_mesh does with a ratio it has read.
PT_decision(pct, tri_count, aif, dry) ==
    IF PT_SKIP_IF_ALREADY_BELOW_TARGET
         /\ Abs(pct - PT_TARGET_PERCENT_RAW) <= PT_EPS_RAW
    THEN "Already"
    ELSE IF PT_TRIANGLE_CUTOFF > 0 /\ tri_count >= 0
              /\ tri_count <= PT_TRIANGLE_CUTOFF
    THEN "SkippedCutoff"
    ELSE IF aif /\ Abs(pct - PT_ONLY_WHEN_EQUALS_RAW) > PT_EPS_RAW
    THEN "SkippedNotFull"
    ELSE IF dry THEN "WouldChange"
    ELSE "Apply"

\* percenttriangles.run, the counters: ok counts as changed, a message with
\* "Skipped" or "Already" as skipped, anything else as an error.
PT_count(c, res) ==
    IF res \in {"WouldChange", "Changed"}
    THEN [c EXCEPT !.changed = @ + 1]
    ELSE IF res \in {"Already", "SkippedCutoff", "SkippedNotFull"}
    THEN [c EXCEPT !.skipped = @ + 1]
    ELSE [c EXCEPT !.errors = @ + 1]

\* What the three rebuild attempts of build_and_save can do, one outcome per
\* attempt: every pattern of success and exception, and the engine that
\* offers none of the three APIs.
RebuildOuts == [1..3 -> {"ok", "raise"}] \cup {[i \in 1..3 |-> "missing"]}

\* The three rebuild attempts of build_and_save (both scripts): build_ok.
Rebuild(b) ==
    IF b[1] = "ok" THEN TRUE
    ELSE IF b[2] = "ok" THEN TRUE
    ELSE b[3] = "ok"

\* percenttriangles.build_and_save.  subsysOk: get_editor_subsystem() returns;
\* b: the rebuild attempts; outerOk: static_mesh.get_outer() returns; s1:
\* save_loaded_asset; s2: save_packages.  The subsystem lookup and get_outer()
\* are outside the try blocks.  Nothing is returned.
PT_build_and_save(subsysOk, b, outerOk, s1, s2) ==
    [raised |-> (~subsysOk \/ ~outerOk),
     buildCalled |-> subsysOk,
     buildOk |-> (subsysOk /\ Rebuild(b)),
     saveCalled |-> (subsysOk /\ outerOk),
     saveOk |-> (subsysOk /\ outerOk /\ (s1 = "ok" \/ s2 = "ok"))]

\* OverReducedFinder.build_and_save: returns build_ok and save_ok.
ORF_build_and_save(subsysOk, b, outerOk, s1, s2) ==
    LET save_ok == s1 = "ok" \/ (outerOk /\ s2 = "ok")
    IN  [raised |-> ~subsysOk,
         buildCalled |-> subsysOk,
         buildOk |-> (subsysOk /\ Rebuild(b)),
         saveCalled |-> subsysOk,
         saveOk |-> (subsysOk /\ save_ok),
         result |-> (subsysOk /\ Rebuild(b) /\ save_ok)]

\* OverReducedFinder.BUILDING_TOKEN, a two-character stand-in for "Building".
BUILDING_TOKEN == <<"B", "g">>

\* str.lower() on the characters used here.
Lower(str) == [i \in 1..Len(str) |-> IF str[i] = "B" THEN "b" ELSE str[i]]

\* Python's `sub in str` on strings.
Contains(str, sub) ==
    \E i \in 0..(Len(str) - Len(sub)) : SubSeq(str, i + 1, i + Len(sub)) = sub

\* OverReducedFinder.has_building_token
has_building_token(package_path, token) ==
    Contains(Lower(package_path), Lower(token))

\* What the three read attempts do in a scan: a representative of each way
\* the chain can end (first path, a later path after a raise or an empty
\* container, no path).
ScanReadOuts == {<<"ok", "ok", "ok">>, <<"raise", "ok", "ok">>,
                 <<"absent", "absent", "ok">>, <<"raise", "absent", "raise">>,
                 <<"absent", "absent", "absent">>}

\* A variant of is_over_reduced that also accepts the threshold itself.
is_over_reduced_inclusive(pct, reduction_threshold_raw) ==
    IF pct = NoneVal THEN FALSE
    ELSE pct <= reduction_threshold_raw

\* OverReducedFinder.is_over_reduced
is_over_reduced(pct, reduction_threshold_raw) ==
    IF pct = NoneVal THEN FALSE
    ELSE pct < reduction_threshold_raw

RECURSIVE SortByTri(_)
\* meshes.sort(key=lambda m: m.triangle_count): ascending and stable.
SortByTri(s) ==
    IF Len(s) <= 1 THEN s
    ELSE LET front == SortByTri(SubSeq(s, 1, Len(s) - 1))
             x == s[Len(s)]
             k == Cardinality({i \in 1..Len(front) : front[i].tri <= x.tri})
         IN  SubSeq(front, 1, k) \o <<x>> \o SubSeq(front, k + 1, Len(front))

\* ------------------------------------------------------------------ the runs

\* run() of percenttriangles or of OverReducedFinder over the assets the
\* registry returns.  OverReducedFinder does not access the Nanite flag.
Init ==
    /\ script \in {"pt", "orf"}
    /\ dry_run \in BOOLEAN
    /\ applyIfFull \in (IF script = "pt" THEN BOOLEAN ELSE {TRUE})
    /\ pc = (IF script = "pt" THEN "start" ELSE "collect")
    /\ val \in [Mesh -> RatiosOf(script)]
    /\ nanite \in [Mesh -> BOOLEAN]
    /\ script = "orf" => \A m \in Mesh : ~nanite[m]
    /\ InitCommon

\* The MeshInfo records of asset m that are not processed yet.
Pending(m) ==
    {k \in 1..Len(cands) :
        /\ cands[k].m = m
        /\ cands[k].action = "FOUND"
        /\ ~(pc = "process" /\ idx = k /\ step = "build")}

\* An edit of an asset's LOD0 ratio made in the editor after the script read
\* the ratio and before the script writes it.
ExternalEdit(m) ==
    /\ \E v \in RatiosOf(script) \ {val[m]} :
         /\ val' = [val EXCEPT ![m] = v]
         /\ \/ /\ script = "pt"
               /\ pc = "loop"
               /\ idx = m
               /\ step \in {"nanite", "apply"}
               /\ edited = NoneVal
               /\ edited' = v
               /\ UNCHANGED cands
            \/ /\ script = "orf"
               /\ pc \in {"collect", "sort", "process"}
               /\ \E k \in Pending(m) :
                    /\ cands[k].edited = NoneVal
                    /\ cands' = [cands EXCEPT ![k].edited = v]
               /\ UNCHANGED edited
    /\ UNCHANGED <<script, dry_run, applyIfFull, pc, idx, step, nanite,
                   percent_raw, reads, log, result, counts, crash, call>>

\* An exception leaves run().
Crash(cause) ==
    /\ pc' = "crashed"
    /\ crash' = cause

\* percenttriangles.run: process_mesh returned res; the counters are updated
\* and the loop moves to the next asset.
PT_Finish(res) ==
    /\ result' = res
    /\ counts' = PT_count(counts, res)
    /\ idx' = idx + 1
    /\ step' = "none"
    /\ pc' = (IF idx + 1 > NumMeshes THEN "done" ELSE "loop")

\* percenttriangles.run up to the processing loop.
PT_Start ==
    /\ script = "pt"
    /\ pc = "start"
    /\ \E diagnose \in BOOLEAN :
         pc' = (IF diagnose THEN "diag" ELSE "loop")
    /\ UNCHANGED <<script, dry_run, applyIfFull, idx, step, val, nanite,
                   percent_raw, reads, edited, log, result, counts, cands,
                   crash, call>>

\* percenttriangles.run, one pass of the diagnose loop (the ratio is read and
\* logged), and after the last pass the introspection of the first asset.
PT_Diag ==
    /\ script = "pt"
    /\ pc = "diag"
    /\ \E nameOk \in BOOLEAN, introOk \in BOOLEAN, outs \in [Path -> ReadOut] :
         LET r == get_percent_triangles_lod0(Exposed(val[idx]), outs)
             last == idx + 1 > Min(PT_SAMPLE_COUNT, NumMeshes)
         IN  IF r.raised \/ ~nameOk \/ (last /\ ~introOk)
             THEN Crash("name") /\ UNCHANGED idx
             ELSE IF last
             THEN pc' = "loop" /\ idx' = 1 /\ UNCHANGED crash
             ELSE idx' = idx + 1 /\ UNCHANGED <<pc, crash>>
    /\ UNCHANGED <<script, dry_run, applyIfFull, step, val, nanite, percent_raw,
                   reads, edited, log, result, counts, cands, call>>

\* percenttriangles.process_mesh, from its start to the check of the read.
PT_Read(m) ==
    /\ script = "pt"
    /\ pc = "loop"
    /\ idx = m
    /\ step = "none"
    /\ \E nameOk \in BOOLEAN, outs \in [Path -> ReadOut] :
         LET r == get_percent_triangles_lod0(Exposed(val[m]), outs)
         IN  IF ~nameOk
             THEN /\ Crash("name")
                  /\ UNCHANGED <<idx, step, percent_raw, reads, edited, log,
                                 result, counts>>
             ELSE /\ percent_raw' = r.res
                  /\ reads' = 1
                  /\ edited' = NoneVal
                  /\ log' = NoLog
                  /\ UNCHANGED crash
                  /\ IF r.res = NoneVal
                     THEN PT_Finish("CouldNotRead")
                     ELSE /\ step' = "nanite"
                          /\ result' = "none"
                          /\ UNCHANGED <<pc, idx, counts>>
    /\ UNCHANGED <<script, dry_run, applyIfFull, val, nanite, cands, call>>

\* percenttriangles.process_mesh, from the triangle count to the dry-run check.
PT_Decide(m) ==
    /\ script = "pt"
    /\ pc = "loop"
    /\ idx = m
    /\ step = "nanite"
    /\ \E primary \in TriOut, isOut \in CallOut, setOut \in CallOut,
          fbOut \in FallbackOut :
         LET tri_count == PT_tri_count(primary)
             n == ensure_nanite_disabled(nanite[m], isOut, setOut, fbOut)
             d == PT_decision(percent_raw, tri_count, applyIfFull, dry_run)
         IN  IF n.raised
             THEN /\ Crash("nanite")
                  /\ UNCHANGED <<idx, step, nanite, result, counts>>
             ELSE /\ nanite' = [nanite EXCEPT ![m] = n.enabled]
                  /\ UNCHANGED crash
                  /\ IF d = "Apply"
                     THEN /\ step' = "apply"
                          /\ UNCHANGED <<pc, idx, result, counts>>
                     ELSE PT_Finish(d)
    /\ UNCHANGED <<script, dry_run, applyIfFull, val, percent_raw, reads,
                   edited, log, cands, call>>

\* A variant of the change in which process_mesh reads the ratio again before
\* writing and gives up when it is no longer the one it decided on.
PT_Apply_rereading(m) ==
    /\ script = "pt"
    /\ pc = "loop"
    /\ idx = m
    /\ step = "apply"
    /\ reads' = reads + 1
    /\ IF val[m] # percent_raw
       THEN /\ PT_Finish("SkippedNotFull")
            /\ UNCHANGED <<val, log, crash>>
       ELSE /\ val' = [val EXCEPT ![m] = PT_TARGET_PERCENT_RAW]
            /\ log' = [log EXCEPT !.setCalled = TRUE, !.setOk = TRUE]
            /\ step' = "build"
            /\ UNCHANGED <<pc, idx, result, counts, crash>>
    /\ UNCHANGED <<script, dry_run, applyIfFull, nanite, percent_raw, edited,
                   cands, call>>

\* percenttriangles.process_mesh, the call of set_percent_triangles_lod0.
PT_Apply(m) ==
    /\ script = "pt"
    /\ pc = "loop"
    /\ idx = m
    /\ step = "apply"
    /\ \E outs \in [Path -> WriteOut], nameOk \in BOOLEAN :
         LET r == PT_set_percent_triangles_lod0(val[m], outs,
                                                PT_TARGET_PERCENT_RAW, nameOk)
         IN  /\ val' = [val EXCEPT ![m] = r.ratio]
             /\ log' = [log EXCEPT !.setCalled = TRUE, !.setOk = r.ok]
             /\ IF r.raised
                THEN /\ Crash("set")
                     /\ UNCHANGED <<idx, step, result, counts>>
                ELSE /\ UNCHANGED crash
                     /\ IF r.ok
                        THEN /\ step' = "build"
                             /\ UNCHANGED <<pc, idx, result, counts>>
                        ELSE PT_Finish("FAILED")
    /\ UNCHANGED <<script, dry_run, applyIfFull, nanite, percent_raw, reads,
                   edited, cands, call>>

\* percenttriangles.process_mesh, build_and_save and the "Changed" result.
PT_BuildSave(m) ==
    /\ script = "pt"
    /\ pc = "loop"
    /\ idx = m
    /\ step = "build"
    /\ \E subsysOk \in BOOLEAN, b \in RebuildOuts, outerOk \in BOOLEAN,
          s1 \in {"ok", "raise"}, s2 \in OptOut :
         LET r == PT_build_and_save(subsysOk, b, outerOk, s1, s2)
         IN  /\ log' = [log EXCEPT !.buildCalled = r.buildCalled,
                                   !.buildOk = r.buildOk,
                                   !.saveCalled = r.saveCalled,
                                   !.saveOk = r.saveOk]
             /\ IF r.raised
                THEN /\ Crash("build_and_save")
                     /\ UNCHANGED <<idx, step, result, counts>>
                ELSE /\ UNCHANGED crash
                     /\ PT_Finish("Changed")
    /\ UNCHANGED <<script, dry_run, applyIfFull, val, nanite, percent_raw,
                   reads, edited, cands, call>>

\* OverReducedFinder.run: process_mesh returned for candidate k with the
\* given action; the counters are updated and the loop moves on.
ORF_Finish(k, action, after, ok) ==
    /\ cands' = [cands EXCEPT ![k].action = action, ![k].after = after]
    /\ result' = action
    /\ counts' = IF ok THEN [counts EXCEPT !.changed = @ + 1]
                 ELSE [counts EXCEPT !.errors = @ + 1]
    /\ idx' = k + 1
    /\ step' = "none"
    /\ pc' = (IF k + 1 > Len(cands) THEN "done" ELSE "process")

\* OverReducedFinder.collect_candidates, the end of one pass of its loop for
\* asset m: loaded says whether iter_static_meshes yielded it, tri_count and
\* pct_raw are what the two reads returned (unknown when not made).  The pass
\* is recorded in call.
ORF_Scanned(m, loaded, package_path, tri_count, pct_raw) ==
    LET keep == /\ loaded
                /\ has_building_token(package_path, BUILDING_TOKEN)
                /\ tri_count >= 0
                /\ is_over_reduced(pct_raw, ORF_REDUCTION_THRESHOLD_RAW)
                /\ tri_count < ORF_TRIANGLE_THRESHOLD
    IN  /\ cands' = IF keep
                    THEN Append(cands, [m |-> m, tri |-> tri_count,
                                        pct |-> pct_raw, action |-> "FOUND",
                                        after |-> NoneVal, edited |-> NoneVal])
                    ELSE cands
        /\ call' = [op |-> "collect", m |-> m, loaded |-> loaded,
                    path |-> package_path, tri |-> tri_count, pct |-> pct_raw,
                    kept |-> keep]
        /\ idx' = idx + 1
        /\ pc' = (IF idx + 1 > NumMeshes THEN "sort" ELSE "collect")
        /\ UNCHANGED crash

\* OverReducedFinder.collect_candidates, one pass of its loop (with the pass
\* of iter_static_meshes that yields the asset).
ORF_Collect(m) ==
    /\ script = "orf"
    /\ pc = "collect"
    /\ idx = m
    /\ \/ \* a.get_asset() raises or does not give a StaticMesh
          ORF_Scanned(m, FALSE, <<>>, TriUnknown, NoneVal)
       \/ \* sm.get_name() or sm.get_path_name() raises
          Crash("name") /\ UNCHANGED <<idx, cands, call>>
       \/ \E package_path \in PackagePaths :
            IF ~has_building_token(package_path, BUILDING_TOKEN)
            THEN ORF_Scanned(m, TRUE, package_path, TriUnknown, NoneVal)
            ELSE \E primary \in TriOut, outs \in ScanReadOuts :
                 \* the fallback is not reached when get_num_triangles returns
                 \E fallback \in (IF primary.k = "ok"
                                  THEN {[k |-> "missing", n |-> 0]}
                                  ELSE TriFallbackOut) :
                   ORF_Scanned(m, TRUE, package_path,
                               get_lod0_triangle_count(primary, fallback),
                               get_percent_triangles_lod0(Exposed(val[m]),
                                                          outs).res)
    /\ UNCHANGED <<script, dry_run, applyIfFull, step, val, nanite, percent_raw,
                   reads, edited, log, result, counts>>

\* OverReducedFinder.run, from the sort to the start of the processing loop.
ORF_Sort ==
    /\ script = "orf"
    /\ pc = "sort"
    /\ cands' = SortByTri(cands)
    /\ idx' = 1
    /\ pc' = (IF cands = <<>> THEN "done" ELSE "process")
    /\ call' = NoCall
    /\ UNCHANGED <<script, dry_run, applyIfFull, step, val, nanite, percent_raw,
                   reads, edited, log, result, counts, crash>>

\* OverReducedFinder.process_mesh in dry-run mode.
ORF_DryRun(k) ==
    /\ script = "orf"
    /\ pc = "process"
    /\ idx = k
    /\ k \in 1..Len(cands)
    /\ dry_run
    /\ log' = NoLog
    /\ ORF_Finish(k, "DRY-RUN", ORF_TARGET_PERCENT_RAW, TRUE)
    /\ UNCHANGED <<script, dry_run, applyIfFull, val, nanite, percent_raw,
                   reads, edited, crash, call>>

\* OverReducedFinder.process_mesh, the call of set_percent_triangles_lod0.
ORF_Apply(k) ==
    /\ script = "orf"
    /\ pc = "process"
    /\ idx = k
    /\ k \in 1..Len(cands)
    /\ step = "none"
    /\ ~dry_run
    /\ \E outs \in [Path -> WriteOut] :
         LET m == cands[k].m
             r == ORF_set_percent_triangles_lod0(val[m], outs,
                                                 ORF_TARGET_PERCENT_RAW)
         IN  /\ val' = [val EXCEPT ![m] = r.ratio]
             /\ log' = [NoLog EXCEPT !.setCalled = TRUE, !.setOk = r.ok]
             /\ IF r.ok
                THEN /\ step' = "build"
                     /\ result' = "none"
                     /\ UNCHANGED <<pc, idx, cands, counts>>
                ELSE ORF_Finish(k, "SET-FAIL", NoneVal, FALSE)
    /\ UNCHANGED <<script, dry_run, applyIfFull, nanite, percent_raw, reads,
                   edited, crash, call>>

\* OverReducedFinder.process_mesh, build_and_save and the resulting action.
ORF_BuildSave(k) ==
    /\ script = "orf"
    /\ pc = "process"
    /\ idx = k
    /\ k \in 1..Len(cands)
    /\ step = "build"
    /\ \E subsysOk \in BOOLEAN, b \in RebuildOuts, outerOk \in BOOLEAN,
          s1 \in {"ok", "raise"}, s2 \in OptOut :
         LET r == ORF_build_and_save(subsysOk, b, outerOk, s1, s2)
         IN  /\ log' = [log EXCEPT !.buildCalled = r.buildCalled,
                                   !.buildOk = r.buildOk,
                                   !.saveCalled = r.saveCalled,
                                   !.saveOk = r.saveOk]
             /\ IF r.raised
                THEN /\ Crash("build_and_save")
                     /\ UNCHANGED <<idx, step, result, counts, cands>>
                ELSE /\ UNCHANGED crash
                     /\ IF r.result
                        THEN ORF_Finish(k, "FIXED", ORF_TARGET_PERCENT_RAW,
                                        TRUE)
                        ELSE ORF_Finish(k, "SAVE-FAIL", NoneVal, FALSE)
    /\ UNCHANGED <<script, dry_run, applyIfFull, val, nanite, percent_raw,
                   reads, edited, call>>

Next ==
    \/ PT_Start
    \/ PT_Diag
    \/ \E m \in Mesh : PT_Read(m)
    \/ \E m \in Mesh : PT_Decide(m)
    \/ \E m \in Mesh : PT_Apply(m)
    \/ \E m \in Mesh : PT_BuildSave(m)
    \/ \E m \in Mesh : ORF_Collect(m)
    \/ ORF_Sort
    \/ \E k \in Mesh : ORF_DryRun(k)
    \/ \E k \in Mesh : ORF_Apply(k)
    \/ \E k \in Mesh : ORF_BuildSave(k)
    \/ \E m \in Mesh : ExternalEdit(m)

Spec == Init /\ [][Next]_vars

\* ------------------------------------------------------ claims on the runs

\* The outcomes of process_mesh after which a candidate has its status.
PT_Results == {"CouldNotRead", "Already", "SkippedCutoff", "SkippedNotFull",
               "WouldChange", "Changed", "FAILED"}

\* C6: for each candidate the LOD0 ratio is read once and that snapshot alone
\* drives the decision.  When process_mesh writes a candidate's ratio the
\* ratio has been read exactly once for it; the write is attempted exactly
\* when the checks applied to the snapshot say so, whether or not the asset
\* was edited from outside after the read; and every candidate that
\* OverReducedFinder has processed is one whose snapshot was over-reduced.
C6_SnapshotDrivesDecision ==
    /\ (script = "pt" /\ log.setCalled) => reads = 1
    /\ (script = "pt" /\ result \in PT_Results /\ percent_raw # NoneVal)
          => (log.setCalled
                <=> PT_decision(percent_raw, TriUnknown, applyIfFull, dry_run)
                      = "Apply")
    /\ script = "orf" =>
          \A k \in 1..Len(cands) :
             /\ is_over_reduced(cands[k].pct, ORF_REDUCTION_THRESHOLD_RAW)
             /\ (pc = "done" => cands[k].action # "FOUND")

\* C6 witness: percenttriangles read 100%, the asset was then edited to 5%
\* from outside, and the script still wrote the target and reported Changed.
C6_Witness ==
    /\ script = "pt"
    /\ percent_raw = 10000
    /\ edited = 500
    /\ reads = 1
    /\ log.setOk
    /\ result = "Changed"

\* C7: run() reaches its end with every candidate processed whatever host
\* call raises during property read, property write, flag access, rebuild or
\* save: no exception from the Nanite flag access or from build_and_save
\* leaves run(), and at the end every candidate has been counted.
C7_RunCompletes ==
    /\ crash \notin {"nanite", "build_and_save"}
    /\ (script = "pt" /\ pc = "done")
          => counts.changed + counts.skipped + counts.errors = NumMeshes
    /\ (script = "orf" /\ pc = "done")
          => counts.changed + counts.errors = Len(cands)

\* C8: in apply mode the success status (percenttriangles "Changed",
\* OverReducedFinder FIXED) is reported only if the ratio write succeeded, an
\* LOD rebuild succeeded and the asset was saved.
C8_SuccessMeansPersisted ==
    (~dry_run /\ result \in {"Changed", "FIXED"})
        => (log.setOk /\ log.buildOk /\ log.saveOk)

\* C9: after percenttriangles.run(dry_run=False) completes, every candidate
\* mesh has Nanite disabled.
C9_NaniteDisabledOnEveryCandidate ==
    (script = "pt" /\ ~dry_run /\ pc = "done") => \A m \in Mesh : ~nanite[m]

\* C10: in dry-run mode no LOD0 ratio is written, no LOD rebuild is invoked
\* and no asset is saved, for either script and whatever the candidates'
\* values are.
C10_DryRunWritesNothing ==
    dry_run => (/\ ~log.setCalled
                /\ ~log.buildCalled
                /\ ~log.saveCalled
                /\ step \notin {"apply", "build"}
                /\ result \notin {"Changed", "FAILED", "FIXED", "SAVE-FAIL",
                                  "SET-FAIL"})

\* C10 witness: a dry run of percenttriangles that ended after reporting
\* "Would change" for its last candidate, whose ratio is still the one read.
C10_Witness ==
    /\ script = "pt"
    /\ dry_run
    /\ pc = "done"
    /\ result = "WouldChange"
    /\ percent_raw = 10000
    /\ val[NumMeshes] = 10000

\* C11 (as claimed): with SKIP_IF_ALREADY_BELOW_TARGET enabled and for either
\* setting of APPLY_IF_PERCENT_EQ_FULL, percenttriangles.process_mesh never
\* writes the ratio of a mesh whose ratio as read is less than or equal to
\* TARGET_PERCENT_RAW, and reports the mesh as skipped.
C11_SkipsAtOrBelowTarget ==
    (/\ script = "pt"
     /\ PT_SKIP_IF_ALREADY_BELOW_TARGET
     /\ percent_raw # NoneVal
     /\ percent_raw <= PT_TARGET_PERCENT_RAW)
        => /\ ~log.setCalled
           /\ step # "apply"
           /\ result \in PT_Results
                 => result \in {"Already", "SkippedCutoff", "SkippedNotFull"}

\* The current call of percenttriangles.process_mesh has ended, by returning
\* or by an exception leaving it after the ratio was read.
PT_Ended == result \in PT_Results \/ crash \in {"nanite", "set", "build_and_save"}

\* C12 (as claimed): with the default configuration (APPLY_IF_PERCENT_EQ_FULL
\* on) and in apply mode, percenttriangles.process_mesh attempts a ratio write
\* on a mesh if and only if the ratio it read is within EPS_RAW of 1.0; the
\* value it writes is TARGET_PERCENT_RAW; and a mesh read at any other ratio is
\* left with that ratio.
C12_WritesExactlyFullMeshes ==
    (script = "pt" /\ applyIfFull /\ ~dry_run) =>
        /\ log.setCalled
              => Abs(percent_raw - PT_ONLY_WHEN_EQUALS_RAW) <= PT_EPS_RAW
        /\ (/\ PT_Ended
            /\ percent_raw # NoneVal
            /\ Abs(percent_raw - PT_ONLY_WHEN_EQUALS_RAW) <= PT_EPS_RAW)
              => log.setCalled
        /\ (pc = "loop" /\ step = "build")
              => val[idx] = PT_TARGET_PERCENT_RAW
        /\ (/\ result \in PT_Results
            /\ percent_raw # NoneVal
            /\ ~log.setCalled
            /\ edited = NoneVal)
              => val[idx - 1] = percent_raw

\* The scanned asset m is in the list collect_candidates is building.
IsCandidate(m) == \E k \in 1..Len(cands) : cands[k].m = m

\* What C13 says of every state of a run of OverReducedFinder.
C13_ExactFilter ==
    script = "orf" =>
        /\ call.op = "collect" =>
              /\ call.kept <=>
                    /\ call.loaded
                    /\ has_building_token(call.path, BUILDING_TOKEN)
                    /\ call.tri # TriUnknown
                    /\ call.tri < ORF_TRIANGLE_THRESHOLD
                    /\ call.pct # NoneVal
                    /\ call.pct < ORF_REDUCTION_THRESHOLD_RAW
              /\ call.kept <=> IsCandidate(call.m)
        /\ \A k \in 1..Len(cands) :
              /\ cands[k].tri >= 0
              /\ cands[k].tri < ORF_TRIANGLE_THRESHOLD
              /\ cands[k].pct # NoneVal
              /\ cands[k].pct < ORF_REDUCTION_THRESHOLD_RAW

\* What C13 says of every step of the script: it changes the ratio of
\* candidates only.
C13_OnlyCandidatesModified ==
    (script = "orf" /\ (pc' # pc \/ idx' # idx \/ step' # step))
        => \A m \in Mesh : val'[m] # val[m] => IsCandidate(m)

\* C13: OverReducedFinder.collect_candidates returns exactly the scanned
\* meshes whose package path contains the building token (compared as
\* has_building_token compares, ignoring case), whose LOD0 triangle count is
\* known and strictly below the triangle threshold and whose LOD0 ratio is
\* readable and strictly below the reduction threshold; any other mesh is
\* never a candidate and never modified by run().
C13_CollectExactly == []C13_ExactFilter /\ [][C13_OnlyCandidatesModified]_vars

\* C13 witness: a mesh under ".../bg..." with 300 triangles at 5% was scanned
\* and is a candidate.
C13_Witness ==
    /\ script = "orf"
    /\ call.op = "collect"
    /\ call.path = <<"b", "g">>
    /\ call.tri = 300
    /\ call.pct = 500
    /\ call.kept
    /\ IsCandidate(call.m)

\* ------------------------------------------------ TrianglesListMaker.run

\* TrianglesListMaker.TRIANGLE_THRESHOLD
TLM_TRIANGLE_THRESHOLD == 50000

\* TrianglesListMaker.UNREDUCED_MIN_RAW = 0.99
TLM_UNREDUCED_MIN_RAW == 9900

\* TrianglesListMaker.EPS_RAW = 0.0005
TLM_EPS_RAW == 5

\* Ratios of the assets TrianglesListMaker scans: 98.90%, 98.97%, 99% (the
\* unreduced minimum itself), 100%.
TLM_Ratios == {9890, 9897, 9900, 10000}

\* Triangle counts of those assets; 50000 is the threshold itself.
TLM_TriCounts == {40000, 50000, 60000}

\* What get_num_triangles(0) does in TrianglesListMaker.get_lod0_triangle_count.
TLM_TriOut == {[k |-> "raise", n |-> 0], [k |-> "missing", n |-> 0]}
                  \cup {[k |-> "ok", n |-> c] : c \in TLM_TriCounts}

\* What its render_data fallback does.
TLM_TriFallbackOut == {[k |-> "raise", n |-> 0], [k |-> "missing", n |-> 0],
                       [k |-> "ok", n |-> 60000]}

\* TrianglesListMaker.is_unreduced
is_unreduced(pct, min_raw) ==
    IF pct = NoneVal THEN FALSE
    ELSE pct + TLM_EPS_RAW >= min_raw

RECURSIVE SortByTriDesc(_)
\* meshes.sort(key=lambda m: m.triangle_count, reverse=True): descending, and
\* equal counts keep their order.
SortByTriDesc(s) ==
    IF Len(s) <= 1 THEN s
    ELSE LET front == SortByTriDesc(SubSeq(s, 1, Len(s) - 1))
             x == s[Len(s)]
             k == Cardinality({i \in 1..Len(front) : front[i].tri >= x.tri})
         IN  SubSeq(front, 1, k) \o <<x>> \o SubSeq(front, k + 1, Len(front))

InitTLM ==
    /\ script = "tlm"
    /\ dry_run = FALSE
    /\ applyIfFull = TRUE
    /\ pc = "collect"
    /\ val \in [Mesh -> TLM_Ratios]
    /\ nanite \in [Mesh -> BOOLEAN]
    /\ InitCommon

TLMFrame == UNCHANGED <<script, dry_run, applyIfFull, step, val, nanite,
                        percent_raw, reads, edited, log, result, counts>>

\* TrianglesListMaker.collect_candidates, the end of one pass of its loop.
TLM_Scanned(m, loaded, tri_count, pct_raw, nanite_state) ==
    LET keep == /\ loaded
                /\ ~(tri_count < 0 \/ tri_count < TLM_TRIANGLE_THRESHOLD)
                /\ is_unreduced(pct_raw, TLM_UNREDUCED_MIN_RAW)
    IN  /\ cands' = IF keep
                    THEN Append(cands, [m |-> m, tri |-> tri_count,
                                        pct |-> pct_raw,
                                        nanite_enabled |-> nanite_state])
                    ELSE cands
        /\ call' = [op |-> "collect", m |-> m, loaded |-> loaded,
                    tri |-> tri_count, pct |-> pct_raw, kept |-> keep]
        /\ idx' = idx + 1
        /\ pc' = (IF idx + 1 > NumMeshes THEN "sort" ELSE "collect")
        /\ UNCHANGED crash

\* TrianglesListMaker.collect_candidates, one pass of its loop (with the pass
\* of iter_static_meshes that yields the asset).
TLM_Collect(m) ==
    /\ script = "tlm"
    /\ pc = "collect"
    /\ idx = m
    /\ \/ \* a.get_asset() raises or does not give a StaticMesh
          TLM_Scanned(m, FALSE, TriUnknown, NoneVal, FALSE)
       \/ \* sm.get_name() or sm.get_path_name() raises
          Crash("name") /\ UNCHANGED <<idx, cands, call>>
       \/ \E primary \in TLM_TriOut, outs \in ScanReadOuts, isOut \in CallOut :
          \* a fallback is not reached when the preferred call returns
          \E fallback \in (IF primary.k = "ok"
                           THEN {[k |-> "missing", n |-> 0]}
                           ELSE TLM_TriFallbackOut),
             fbOut \in (IF isOut = "ok" THEN {"absent"} ELSE FallbackOut) :
            TLM_Scanned(m, TRUE,
                        get_lod0_triangle_count(primary, fallback),
                        get_percent_triangles_lod0(Exposed(val[m]), outs).res,
                        TLM_nanite_state(nanite[m], isOut, fbOut).state)
    /\ TLMFrame

\* TrianglesListMaker.run after collect_candidates: the sort; the table, the
\* CSV and the opening of editors do not touch the list.
TLM_Sort ==
    /\ script = "tlm"
    /\ pc = "sort"
    /\ cands' = SortByTriDesc(cands)
    /\ pc' = "done"
    /\ call' = NoCall
    /\ UNCHANGED <<idx, crash>>
    /\ TLMFrame

NextTLM ==
    \/ \E m \in Mesh : TLM_Collect(m)
    \/ TLM_Sort

SpecTLM == InitTLM /\ [][NextTLM]_vars

\* C14 (as claimed): TrianglesListMaker.collect_candidates reports exactly the
\* meshes whose LOD0 triangle count is >= the triangle threshold and whose LOD0
\* percent_triangles is >= UNREDUCED_MIN_RAW; a mesh whose ratio is below the
\* minimum, or unreadable, is never reported.
C14_ReportsExactlyUnreduced ==
    script = "tlm" =>
        /\ call.op = "collect" =>
              (call.kept <=>
                  /\ call.loaded
                  /\ call.tri >= TLM_TRIANGLE_THRESHOLD
                  /\ call.pct # NoneVal
                  /\ call.pct >= TLM_UNREDUCED_MIN_RAW)
        /\ \A k \in 1..Len(cands) :
              /\ cands[k].tri >= TLM_TRIANGLE_THRESHOLD
              /\ cands[k].pct # NoneVal
              /\ cands[k].pct >= TLM_UNREDUCED_MIN_RAW

\* ------------------------------------------------- the write, once more

\* C15 (as claimed): one call of set_percent_triangles_lod0 commits the new
\* ratio through at most one access path, and when it returns False it has
\* committed through none: the mesh's ratio is what it was before the call.
C15_CommitsAtMostOnce ==
    call.op = "set" =>
        /\ Cardinality(call.wrote) <= 1
        /\ (~call.ok /\ ~call.raised)
              => (call.wrote = {} /\ val[AccMesh] = call.before)

====
